---- MODULE Spec2Model ----
(***************************************************************************)
(* Model of main.py: GestorFinanzas, a ledger of Movimiento objects kept   *)
(* in memory and rewritten in full to a JSON file after every addition.    *)
(*                                                                         *)
(* Representation.                                                         *)
(*  - A str that the code strips or sorts (categoria, descripcion) is a    *)
(*    sequence of code points (32 = space, 97 = "a", 98 = "b", 120 = "x"). *)
(*  - A float amount is an integer number of sixteenths (all such values   *)
(*    and their small sums are exact binary floats), or NaN.               *)
(*  - round(x, 2) yields an integer number of hundredths, or NaN.          *)
(*  - The file is a parsed JSON document, or missing, or not JSON at all.  *)
(***************************************************************************)
EXTENDS Integers, Sequences, FiniteSets, TLC

VARIABLES
    file,          \* content of db_path
    status,        \* per instance: "none" before __init__, "ok", or the exception __init__ raised
    movimientos,   \* per instance: self.movimientos
    cargados,      \* per instance: how many entries _cargar loaded at construction
    ret,           \* outcome of the last call: what it returned or raised
    snapshot       \* the list the caller holds from its last listar(): references into self.movimientos

vars == <<file, status, movimientos, cargados, ret, snapshot>>

\* Largest ledger the model lets an instance grow to.
MaxMovs == 2

\* Longest list the caller builds out of a listar() result.
MaxSnapshot == 3

Inst == {1, 2}

----------------------------------------------------------------------------
\* Values

\* float("nan"): argparse's type=float accepts "nan"; no comparison with it is true.
NaN == 0 - 1000000

\* date.today().isoformat()
Hoy == "2026-11-05"

\* The fields of the Movimiento dataclass.
Campos == {"tipo", "monto", "categoria", "descripcion", "fecha"}

Movimiento(tipo, monto, categoria, descripcion, fecha) ==
    [tipo |-> tipo, monto |-> monto, categoria |-> categoria,
     descripcion |-> descripcion, fecha |-> fecha]

\* Placeholder where a call returns no Movimiento.
SinMovimiento == Movimiento("", 0, << >>, << >>, "")

SinResumen == [ingresos |-> 0, gastos |-> 0, balance |-> 0]

General == <<103, 101, 110, 101, 114, 97, 108>>   \* "general"

\* monto <= 0 on floats: False for NaN.
MenorIgualCero(monto) == monto # NaN /\ monto <= 0

\* a + b on floats.
Mas(a, b) == IF a = NaN \/ b = NaN THEN NaN ELSE a + b

\* a - b on floats.
Menos(a, b) == IF a = NaN \/ b = NaN THEN NaN ELSE a - b

\* round(x, 2): x sixteenths to the nearest hundredth, an exact tie to the even one.
Round2(x) ==
    IF x = NaN THEN NaN
    ELSE LET q == (x * 25) \div 4
             r == (x * 25) % 4
         IN  IF r < 2 THEN q
             ELSE IF r > 2 THEN q + 1
             ELSE IF q % 2 = 0 THEN q ELSE q + 1

\* str.strip(): drops leading and trailing whitespace.
RECURSIVE LStrip(_)
LStrip(s) == IF s # << >> /\ Head(s) = 32 THEN LStrip(Tail(s)) ELSE s

RECURSIVE RStrip(_)
RStrip(s) ==
    IF s # << >> /\ s[Len(s)] = 32 THEN RStrip(SubSeq(s, 1, Len(s) - 1)) ELSE s

Strip(s) == RStrip(LStrip(s))

\* s < t on str: by code point, a proper prefix first.
RECURSIVE StrLess(_, _)
StrLess(s, t) ==
    IF t = << >> THEN FALSE
    ELSE IF s = << >> THEN TRUE
    ELSE IF Head(s) # Head(t) THEN Head(s) < Head(t)
    ELSE StrLess(Tail(s), Tail(t))

----------------------------------------------------------------------------
\* The JSON file

\* No file at db_path.
Missing == [t |-> "missing", items |-> << >>]

\* asdict(m)
AsDict(m) ==
    [esDict |-> TRUE,
     campos |-> [tipo |-> m.tipo, monto |-> m.monto, categoria |-> m.categoria,
                 descripcion |-> m.descripcion, fecha |-> m.fecha]]

\* _guardar as an appender would write it: only the newest entry.
GuardarUltimo(movs) ==
    [t |-> "array",
     items |-> IF movs = << >> THEN << >> ELSE << AsDict(movs[Len(movs)]) >>]

\* What _guardar writes: the JSON array of asdict(m) for the whole list.
Guardar(movs) ==
    [t |-> "array", items |-> [k \in 1..Len(movs) |-> AsDict(movs[k])]]

\* Movimiento(**item) raises TypeError unless item is a mapping whose keys are
\* exactly the dataclass fields.
ItemOk(item) == item.esDict /\ DOMAIN item.campos = Campos

DesdeItem(item) ==
    Movimiento(item.campos.tipo, item.campos.monto, item.campos.categoria,
               item.campos.descripcion, item.campos.fecha)

\* _cargar: the exception raised ("" for none) and the list built.
\* Iterating a JSON object yields its keys and iterating a JSON string its
\* characters, so either one, when empty, builds the empty list.
Cargar(doc) ==
    IF doc.t = "missing" THEN [error |-> "", movs |-> << >>]
    ELSE IF doc.t = "invalid" THEN [error |-> "JSONDecodeError", movs |-> << >>]
    ELSE IF doc.t = "scalar" THEN [error |-> "TypeError", movs |-> << >>]
    ELSE IF \A k \in 1..Len(doc.items) : ItemOk(doc.items[k])
         THEN [error |-> "",
               movs |-> [k \in 1..Len(doc.items) |-> DesdeItem(doc.items[k])]]
         ELSE [error |-> "TypeError", movs |-> << >>]

----------------------------------------------------------------------------
\* The operations as functions of the list

\* agregar_movimiento with `categoria or "general"`: the strip forgotten.
AgregarFnSinStrip(movs, tipo, monto, categoria, descripcion, fecha) ==
    IF tipo \notin {"ingreso", "gasto"}
    THEN [error |-> "ValueError:tipo", movs |-> movs, mov |-> SinMovimiento, guardar |-> FALSE]
    ELSE IF MenorIgualCero(monto)
    THEN [error |-> "ValueError:monto", movs |-> movs, mov |-> SinMovimiento, guardar |-> FALSE]
    ELSE LET m == Movimiento(
                      tipo,
                      monto,
                      IF categoria # << >> THEN categoria ELSE General,
                      Strip(descripcion),
                      IF fecha # << >> /\ fecha[1] # "" THEN fecha[1] ELSE Hoy)
         IN  [error |-> "", movs |-> Append(movs, m), mov |-> m, guardar |-> TRUE]

\* agregar_movimiento with the append moved above the validation: a rejected
\* call leaves its entry in the list.
AgregarFnValidaDespues(movs, tipo, monto, categoria, descripcion, fecha) ==
    LET m == Movimiento(
                 tipo,
                 monto,
                 IF Strip(categoria) # << >> THEN Strip(categoria) ELSE General,
                 Strip(descripcion),
                 IF fecha # << >> /\ fecha[1] # "" THEN fecha[1] ELSE Hoy)
    IN  IF tipo \notin {"ingreso", "gasto"}
        THEN [error |-> "ValueError:tipo", movs |-> Append(movs, m),
              mov |-> SinMovimiento, guardar |-> FALSE]
        ELSE IF MenorIgualCero(monto)
        THEN [error |-> "ValueError:monto", movs |-> Append(movs, m),
              mov |-> SinMovimiento, guardar |-> FALSE]
        ELSE [error |-> "", movs |-> Append(movs, m), mov |-> m, guardar |-> TRUE]

\* agregar_movimiento: the exception raised ("" for none), the list afterwards,
\* the Movimiento returned and whether _guardar ran.
AgregarFn(movs, tipo, monto, categoria, descripcion, fecha) ==
    IF tipo \notin {"ingreso", "gasto"}
    THEN [error |-> "ValueError:tipo", movs |-> movs, mov |-> SinMovimiento, guardar |-> FALSE]
    ELSE IF MenorIgualCero(monto)
    THEN [error |-> "ValueError:monto", movs |-> movs, mov |-> SinMovimiento, guardar |-> FALSE]
    ELSE LET m == Movimiento(
                      tipo,
                      monto,
                      IF Strip(categoria) # << >> THEN Strip(categoria) ELSE General,
                      Strip(descripcion),
                      IF fecha # << >> /\ fecha[1] # "" THEN fecha[1] ELSE Hoy)
         IN  [error |-> "", movs |-> Append(movs, m), mov |-> m, guardar |-> TRUE]

\* sum(m.monto for m in movs if m.tipo == tipo), left to right from 0.
RECURSIVE SumaTipo(_, _, _)
SumaTipo(movs, tipo, acc) ==
    IF movs = << >> THEN acc
    ELSE SumaTipo(Tail(movs), tipo,
                  IF Head(movs).tipo = tipo THEN Mas(acc, Head(movs).monto) ELSE acc)

\* resumen with the balance taken from the two rounded totals.
ResumenFnDeRedondeados(movs) ==
    LET ingresos == SumaTipo(movs, "ingreso", 0)
        gastos == SumaTipo(movs, "gasto", 0)
    IN  [ingresos |-> Round2(ingresos),
         gastos |-> Round2(gastos),
         balance |-> Menos(Round2(ingresos), Round2(gastos))]

\* resumen
ResumenFn(movs) ==
    LET ingresos == SumaTipo(movs, "ingreso", 0)
        gastos == SumaTipo(movs, "gasto", 0)
    IN  [ingresos |-> Round2(ingresos),
         gastos |-> Round2(gastos),
         balance |-> Round2(Menos(ingresos, gastos))]

\* totales[cat] = totales.get(cat, 0.0) + monto, on a dict kept in insertion order
\* as a sequence of <<key, value>>.
RECURSIVE Acumular(_, _, _)
Acumular(totales, cat, monto) ==
    IF totales = << >> THEN << <<cat, Mas(0, monto)>> >>
    ELSE IF Head(totales)[1] = cat
         THEN << <<cat, Mas(Head(totales)[2], monto)>> >> \o Tail(totales)
         ELSE << Head(totales) >> \o Acumular(Tail(totales), cat, monto)

RECURSIVE Totales(_, _, _)
Totales(movs, tipo, totales) ==
    IF movs = << >> THEN totales
    ELSE Totales(Tail(movs), tipo,
                 IF Head(movs).tipo # tipo THEN totales
                 ELSE Acumular(totales, Head(movs).categoria, Head(movs).monto))

\* sorted(totales.items()): the keys are distinct, so the key decides.
RECURSIVE Insertar(_, _)
Insertar(ordenados, par) ==
    IF ordenados = << >> THEN << par >>
    ELSE IF StrLess(par[1], Head(ordenados)[1]) THEN << par >> \o ordenados
    ELSE << Head(ordenados) >> \o Insertar(Tail(ordenados), par)

\* The dict returned in insertion order: the sorted() forgotten.
SinOrdenar(pares) == pares

RECURSIVE Sorted(_)
Sorted(pares) ==
    IF pares = << >> THEN << >>
    ELSE Insertar(Sorted(Tail(pares)), Head(pares))

\* resumen_por_categoria: the exception raised ("" for none) and the dict returned,
\* in its iteration order.
ResumenPorCategoriaFn(movs, tipo) ==
    IF tipo \notin {"ingreso", "gasto"}
    THEN [error |-> "ValueError:tipo", categorias |-> << >>]
    ELSE LET s == Sorted(Totales(movs, tipo, << >>))
         IN  [error |-> "",
              categorias |-> [k \in 1..Len(s) |-> <<s[k][1], Round2(s[k][2])>>]]

\* listar: list(self.movimientos), a new list of the same objects. An object of
\* the store is named by its position in self.movimientos, which never changes.
ListarFn(movs) == [k \in 1..Len(movs) |-> k]

----------------------------------------------------------------------------
\* Inputs

\* Files found at db_path when the program starts.
ItemValido == AsDict(Movimiento("gasto", 4, <<97>>, << >>, "2024-01-15"))
ItemOtroTipo == AsDict(Movimiento("otro", 0 - 16, <<98>>, << >>, "2024-01-15"))
ItemSinCampo ==
    [esDict |-> TRUE,
     campos |-> [tipo |-> "gasto", monto |-> 4, categoria |-> <<97>>, fecha |-> "2024-01-15"]]
ItemCampoExtra ==
    [esDict |-> TRUE,
     campos |-> [tipo |-> "gasto", monto |-> 4, categoria |-> <<97>>, descripcion |-> << >>,
                 fecha |-> "2024-01-15", nota |-> << >>]]
ItemNoDict == [esDict |-> FALSE, campos |-> [valor |-> 0]]

ArchivosIniciales ==
    { Missing,
      [t |-> "invalid", items |-> << >>],          \* not JSON
      [t |-> "scalar", items |-> << >>],           \* 5
      [t |-> "object", items |-> << >>],           \* {}
      [t |-> "object", items |-> <<ItemNoDict>>],  \* {"a": 1}
      [t |-> "string", items |-> << >>],           \* ""
      [t |-> "array", items |-> << >>],            \* []
      [t |-> "array", items |-> <<ItemValido>>],
      [t |-> "array", items |-> <<ItemOtroTipo>>],
      [t |-> "array", items |-> <<ItemValido, ItemSinCampo>>],
      [t |-> "array", items |-> <<ItemCampoExtra>>],
      [t |-> "array", items |-> <<ItemNoDict>>] }

\* Arguments of agregar_movimiento that reach every branch of its validation and
\* of its normalisation. fecha: << >> is None, <<s>> the str s.
TiposEntrada == {"ingreso", "gasto", "otro"}
MontosEntrada == {0 - 16, 0, 2, NaN}
CategoriasEntrada == {<<32>>, <<32, 97, 32>>}
DescripcionesEntrada == {<<32, 120, 32>>}
FechasEntrada == {<< >>, <<"">>, <<"2024-01-15">>}

\* Arguments whose sums need rounding (2/16 = 0.125, 4/16 = 0.25) and whose
\* categories need sorting ("a" < "aa" < "b").
MontosSuma == {2, 4}
CategoriasSuma == {<<98>>, <<97>>, <<97, 97>>}

----------------------------------------------------------------------------
\* State

SinArgs == <<"", 0, << >>, << >>, << >>>>

SinRet ==
    [op |-> "", inst |-> 0, args |-> SinArgs, error |-> "", mov |-> SinMovimiento,
     resumen |-> SinResumen, categorias |-> << >>]

SinSnapshot == [inst |-> 0, refs |-> << >>]

InitCon(archivos) ==
    /\ file \in archivos
    /\ status = [i \in Inst |-> "none"]
    /\ movimientos = [i \in Inst |-> << >>]
    /\ cargados = [i \in Inst |-> 0]
    /\ ret = SinRet
    /\ snapshot = SinSnapshot

\* GestorFinanzas(db_path)
Construir(i) ==
    /\ status[i] = "none"
    /\ LET r == Cargar(file)
       IN  /\ status' = [status EXCEPT ![i] = IF r.error = "" THEN "ok" ELSE r.error]
           /\ movimientos' = [movimientos EXCEPT ![i] = r.movs]
           /\ cargados' = [cargados EXCEPT ![i] = Len(r.movs)]
           /\ ret' = [SinRet EXCEPT !.op = "construir", !.inst = i, !.error = r.error]
    /\ UNCHANGED <<file, snapshot>>

\* agregar_movimiento that reads the file again before it appends, so that what
\* other instances wrote is merged in.
AgregarConRecarga(i, tipo, monto, categoria, descripcion, fecha) ==
    /\ status[i] = "ok"
    /\ LET base == IF Cargar(file).error = "" /\ file # Missing
                   THEN Cargar(file).movs ELSE movimientos[i]
           r == AgregarFn(base, tipo, monto, categoria, descripcion, fecha)
       IN  /\ r.error = "" => Len(base) < MaxMovs
           /\ movimientos' = [movimientos EXCEPT ![i] = IF r.error = "" THEN r.movs ELSE @]
           /\ file' = IF r.guardar THEN Guardar(r.movs) ELSE file
           /\ ret' = [SinRet EXCEPT !.op = "agregar", !.inst = i,
                                    !.args = <<tipo, monto, categoria, descripcion, fecha>>,
                                    !.error = r.error, !.mov = r.mov]
    /\ UNCHANGED <<status, cargados, snapshot>>

\* gestor.agregar_movimiento(tipo, monto, categoria, descripcion, fecha)
AgregarMovimiento(i, tipo, monto, categoria, descripcion, fecha) ==
    /\ status[i] = "ok"
    /\ LET r == AgregarFn(movimientos[i], tipo, monto, categoria, descripcion, fecha)
       IN  /\ r.error = "" => Len(movimientos[i]) < MaxMovs
           /\ movimientos' = [movimientos EXCEPT ![i] = r.movs]
           /\ file' = IF r.guardar THEN Guardar(r.movs) ELSE file
           /\ ret' = [SinRet EXCEPT !.op = "agregar", !.inst = i,
                                    !.args = <<tipo, monto, categoria, descripcion, fecha>>,
                                    !.error = r.error, !.mov = r.mov]
    /\ UNCHANGED <<status, cargados, snapshot>>

\* gestor.resumen()
Resumen(i) ==
    /\ status[i] = "ok"
    /\ ret' = [SinRet EXCEPT !.op = "resumen", !.inst = i,
                             !.resumen = ResumenFn(movimientos[i])]
    /\ UNCHANGED <<file, status, movimientos, cargados, snapshot>>

\* gestor.resumen_por_categoria(tipo)
ResumenPorCategoria(i, tipo) ==
    /\ status[i] = "ok"
    /\ LET r == ResumenPorCategoriaFn(movimientos[i], tipo)
       IN  ret' = [SinRet EXCEPT !.op = "categorias", !.inst = i,
                                 !.args = [SinArgs EXCEPT ![1] = tipo],
                                 !.error = r.error, !.categorias = r.categorias]
    /\ UNCHANGED <<file, status, movimientos, cargados, snapshot>>

\* gestor.listar(): the caller now holds the returned list.
Listar(i) ==
    /\ status[i] = "ok"
    /\ snapshot' = [inst |-> i, refs |-> ListarFn(movimientos[i])]
    /\ ret' = [SinRet EXCEPT !.op = "listar", !.inst = i]
    /\ UNCHANGED <<file, status, movimientos, cargados>>

\* What the caller can do with the list it holds. 0 stands for an object of the
\* caller's own.
CallerAppend ==
    /\ snapshot.inst # 0
    /\ Len(snapshot.refs) < MaxSnapshot
    /\ snapshot' = [snapshot EXCEPT !.refs = Append(@, 0)]
    /\ UNCHANGED <<file, status, movimientos, cargados, ret>>

CallerRemove(k) ==
    /\ k \in 1..Len(snapshot.refs)
    /\ snapshot' = [snapshot EXCEPT
                      !.refs = SubSeq(@, 1, k - 1) \o SubSeq(@, k + 1, Len(@))]
    /\ UNCHANGED <<file, status, movimientos, cargados, ret>>

CallerReplace(k) ==
    /\ k \in 1..Len(snapshot.refs)
    /\ snapshot.refs[k] # 0
    /\ snapshot' = [snapshot EXCEPT !.refs[k] = 0]
    /\ UNCHANGED <<file, status, movimientos, cargados, ret>>

\* lista[k].<campo> = valor: Movimiento is a plain dataclass, so the assignment
\* lands on the object, which the store's list holds too.
CallerSetField(k, campo, valor) ==
    /\ k \in 1..Len(snapshot.refs)
    /\ snapshot.refs[k] # 0
    /\ movimientos' =
         [movimientos EXCEPT ![snapshot.inst][snapshot.refs[k]][campo] = valor]
    /\ UNCHANGED <<file, status, cargados, ret, snapshot>>

----------------------------------------------------------------------------
\* One program instance on the path: construction and additions.

Init == InitCon(ArchivosIniciales)

Agregar(i) ==
    \E tipo \in TiposEntrada, monto \in MontosEntrada, categoria \in CategoriasEntrada,
       descripcion \in DescripcionesEntrada, fecha \in FechasEntrada :
        AgregarMovimiento(i, tipo, monto, categoria, descripcion, fecha)

Next ==
    \/ Construir(1)
    \/ Agregar(1)

Spec == Init /\ [][Next]_vars

\* One instance, every operation of the store.
AgregarSuma(i) ==
    \E tipo \in TiposEntrada, monto \in MontosSuma \cup {0}, categoria \in CategoriasSuma :
        AgregarMovimiento(i, tipo, monto, categoria, << >>, << >>)

Categorias(i) == \E tipo \in TiposEntrada : ResumenPorCategoria(i, tipo)

NextConsultas ==
    \/ Construir(1)
    \/ AgregarSuma(1)
    \/ Resumen(1)
    \/ Categorias(1)
    \/ Listar(1)

SpecConsultas == Init /\ [][NextConsultas]_vars

\* One instance adds to a store that starts with no file; a second one is
\* constructed on the same path at any later moment.
InitSinArchivo == InitCon({Missing})

Reconstruir ==
    /\ status[1] = "ok"
    /\ Construir(2)

AgregarValido(i) ==
    \E tipo \in {"ingreso", "gasto"}, monto \in {2, NaN}, categoria \in CategoriasEntrada,
       descripcion \in DescripcionesEntrada, fecha \in {<< >>, <<"2024-01-15">>} :
        AgregarMovimiento(i, tipo, monto, categoria, descripcion, fecha)

NextRoundTrip ==
    \/ Construir(1)
    \/ AgregarValido(1)
    \/ Reconstruir

SpecRoundTrip == InitSinArchivo /\ [][NextRoundTrip]_vars

\* One instance and a caller that keeps the list listar() returned.
InitCaller == InitCon({Missing, [t |-> "array", items |-> <<ItemValido>>]})

AgregarUno(i) ==
    \E tipo \in {"ingreso", "gasto"}, categoria \in {<<97>>, <<98>>} :
        AgregarMovimiento(i, tipo, 4, categoria, << >>, << >>)

CallerRemoveAny == \E k \in 1..MaxSnapshot : CallerRemove(k)

CallerReplaceAny == \E k \in 1..MaxSnapshot : CallerReplace(k)

CallerSetFieldAny ==
    \E k \in 1..MaxSnapshot :
        \/ CallerSetField(k, "monto", 0 - 16)
        \/ CallerSetField(k, "tipo", "otro")

NextCaller ==
    \/ Construir(1)
    \/ AgregarUno(1)
    \/ Resumen(1)
    \/ Listar(1)
    \/ CallerAppend
    \/ CallerRemoveAny
    \/ CallerReplaceAny
    \/ CallerSetFieldAny

SpecCaller == InitCaller /\ [][NextCaller]_vars

\* Two program instances on the same path, their calls interleaved.
NextDosInstancias ==
    \/ \E i \in Inst : Construir(i)
    \/ \E i \in Inst : AgregarUno(i)

SpecDosInstancias == InitCaller /\ [][NextDosInstancias]_vars

----------------------------------------------------------------------------
\* Vocabulary of the properties, stated without the operators above.

TiposValidos == {"ingreso", "gasto"}

EsPositivo(monto) == monto # NaN /\ monto > 0

\* s without its leading and trailing spaces.
Recortado(s) ==
    LET idx == {k \in 1..Len(s) : s[k] # 32}
    IN  IF idx = {} THEN << >>
        ELSE SubSeq(s, CHOOSE k \in idx : \A j \in idx : k <= j,
                       CHOOSE k \in idx : \A j \in idx : j <= k)

\* s before t in lexicographic order.
Menor(s, t) ==
    \E n \in 0..Len(s) :
        /\ n <= Len(t)
        /\ \A k \in 1..n : s[k] = t[k]
        /\ \/ n = Len(s) /\ n < Len(t)
           \/ n < Len(s) /\ n < Len(t) /\ s[n + 1] < t[n + 1]

\* What List returns, as values: the entries the returned references lead to.
Lista(movs) == [k \in 1..Len(ListarFn(movs)) |-> movs[ListarFn(movs)[k]]]

\* The sum of the amounts at the positions idx of movs.
RECURSIVE SumaEn(_, _)
SumaEn(movs, idx) ==
    IF idx = {} THEN 0
    ELSE LET k == CHOOSE j \in idx : TRUE
         IN  movs[k].monto + SumaEn(movs, idx \ {k})

SumaDe(movs, idx) ==
    IF \E k \in idx : movs[k].monto = NaN THEN NaN ELSE SumaEn(movs, idx)

DeTipo(movs, tipo) == {k \in 1..Len(movs) : movs[k].tipo = tipo}

DeTipoYCategoria(movs, tipo, cat) ==
    {k \in DeTipo(movs, tipo) : movs[k].categoria = cat}

\* c hundredths is x sixteenths exactly.
EsIgual(c, x) == IF x = NaN THEN c = NaN ELSE c # NaN /\ 16 * c = 100 * x

\* c hundredths is x sixteenths rounded to two decimals: a nearest hundredth,
\* the even one when two are equally near.
EsRedondeo(c, x) ==
    IF x = NaN THEN c = NaN
    ELSE /\ c # NaN
         /\ LET d == 16 * c - 100 * x
                a == IF d < 0 THEN 0 - d ELSE d
            IN  a <= 8 /\ (a = 8 => c % 2 = 0)

\* doc is the JSON array of exactly the entries movs, in order.
ArchivoEs(doc, movs) ==
    /\ doc.t = "array"
    /\ Len(doc.items) = Len(movs)
    /\ \A k \in 1..Len(movs) : doc.items[k].esDict /\ doc.items[k].campos = movs[k]

----------------------------------------------------------------------------
\* C1

\* The step is an accepted call of Add: kind valid, amount > 0.
AgregaValido ==
    /\ ret'.op = "agregar"
    /\ ret'.args[1] \in TiposValidos
    /\ EsPositivo(ret'.args[2])

\* The call succeeds, List grows by exactly the returned entry at its end, and
\* that entry has the given kind and amount, the trimmed category or "general",
\* and the trimmed description.
AnadeAlFinal ==
    /\ ret'.error = ""
    /\ Lista(movimientos'[ret'.inst]) = Append(Lista(movimientos[ret'.inst]), ret'.mov)
    /\ ret'.mov.tipo = ret'.args[1]
    /\ ret'.mov.monto = ret'.args[2]
    /\ ret'.mov.categoria =
         (IF Recortado(ret'.args[3]) = << >> THEN General ELSE Recortado(ret'.args[3]))
    /\ ret'.mov.descripcion = Recortado(ret'.args[4])

\* C1 as amended: every Add with a kind in {income, expense} and an amount > 0
\* succeeds and appends exactly one entry at the end of the list, earlier
\* entries untouched; the entry has the given kind and amount, the trimmed
\* category or "general", the trimmed description, and the supplied date when a
\* non-empty date is supplied, the current date when the date is omitted or is
\* the empty string.
C1_AgregarAnade ==
    [][AgregaValido =>
         /\ AnadeAlFinal
         /\ ret'.mov.fecha =
              (IF ret'.args[5] # << >> /\ ret'.args[5][1] # ""
               THEN ret'.args[5][1] ELSE Hoy)]_vars

\* C1 as stated: as above, but the date is the supplied date whenever one is
\* supplied.
C1_FechaSuministrada ==
    [][AgregaValido =>
         /\ AnadeAlFinal
         /\ (ret'.args[5] # << >> => ret'.mov.fecha = ret'.args[5][1])]_vars

\* An Add onto a non-empty list whose blank category became "general" and whose
\* supplied date was kept.
C1_Witness ==
    /\ ret.op = "agregar"
    /\ ret.error = ""
    /\ Len(movimientos[1]) >= 2
    /\ ret.args[3] = <<32>>
    /\ movimientos[1][Len(movimientos[1])].categoria = General
    /\ ret.args[5] = <<"2024-01-15">>
    /\ movimientos[1][Len(movimientos[1])].fecha = "2024-01-15"

----------------------------------------------------------------------------
\* C3

\* C3: a rejected Add changes nothing. A kind outside {income, expense} raises
\* the kind error whatever the amount; a valid kind with an amount <= 0 raises
\* the amount error; either way the list and the file are as before the call.
C3_RechazoSinCambio ==
    [][ret'.op = "agregar" =>
         /\ ret'.args[1] \notin TiposValidos =>
              /\ ret'.error = "ValueError:tipo"
              /\ movimientos' = movimientos
              /\ file' = file
         /\ (ret'.args[1] \in TiposValidos /\ ret'.args[2] # NaN /\ ret'.args[2] <= 0) =>
              /\ ret'.error = "ValueError:monto"
              /\ movimientos' = movimientos
              /\ file' = file]_vars

\* A call with both a bad kind and a bad amount, rejected for its kind, on a
\* store that holds entries.
C3_Witness ==
    /\ ret.op = "agregar"
    /\ ret.error = "ValueError:tipo"
    /\ ret.args[1] = "otro"
    /\ ret.args[2] = 0
    /\ Len(movimientos[1]) >= 1
    /\ ArchivoEs(file, movimientos[1])

----------------------------------------------------------------------------
\* C4

\* C4: every entry of every ledger has a kind in {income, expense} and an
\* amount strictly greater than zero.
C4_InvarianteEntrada ==
    \A i \in Inst : \A k \in 1..Len(movimientos[i]) :
        /\ movimientos[i][k].tipo \in TiposValidos
        /\ EsPositivo(movimientos[i][k].monto)

----------------------------------------------------------------------------
\* C8

ArregloDeObjetos(doc) ==
    doc.t = "array" /\ \A k \in 1..Len(doc.items) : doc.items[k].esDict

\* C8: Construct yields the empty ledger when there is no file; fails with
\* CorruptStore when the content is not a JSON array of objects (the JSON
\* decoder's error when it is not JSON at all, some error otherwise); fails with
\* MalformedRecord (the constructor's TypeError) when an object of the array
\* lacks a field or carries an extra one. So a file that is not a well-formed
\* array of entry objects never yields a ledger.
C8_ConstruirTresResultados ==
    ret.op = "construir" =>
        /\ file.t = "missing" =>
             status[ret.inst] = "ok" /\ movimientos[ret.inst] = << >>
        /\ file.t = "invalid" => status[ret.inst] = "JSONDecodeError"
        /\ (file.t # "missing" /\ ~ArregloDeObjetos(file)) => status[ret.inst] # "ok"
        /\ (ArregloDeObjetos(file)
              /\ \E k \in 1..Len(file.items) : DOMAIN file.items[k].campos # Campos) =>
             status[ret.inst] = "TypeError"

----------------------------------------------------------------------------
\* C9

\* C9: whenever the one instance is between two calls, the file and its list
\* agree: no file and an empty list, or the file is the JSON array of exactly
\* the entries of the list, in order.
C9_ArchivoYMemoria ==
    status[1] = "ok" =>
        \/ file = Missing /\ movimientos[1] = << >>
        \/ ArchivoEs(file, movimientos[1])

----------------------------------------------------------------------------
\* C2

\* C2: a store constructed on the path after N successful Adds to a store that
\* started with no file holds the same N entries, in the same order, with the
\* same field values.
C2_RoundTrip ==
    (ret.op = "construir" /\ ret.inst = 2) =>
        /\ status[2] = "ok"
        /\ Lista(movimientos[2]) = Lista(movimientos[1])

\* A reconstruction after two additions.
C2_Witness ==
    /\ ret.op = "construir"
    /\ ret.inst = 2
    /\ Len(movimientos[1]) >= 2
    /\ Len(movimientos[2]) = Len(movimientos[1])
    /\ cargados[1] = 0

----------------------------------------------------------------------------
\* C6

\* The step is a call of Summary.
PasoResumen == ret'.op = "resumen"

\* C6 as amended: Summary returns the sum of the income amounts, the sum of the
\* expense amounts, and the income sum minus the expense sum, each rounded to
\* two decimals (the balance is the rounded difference of the unrounded sums,
\* not the difference of the two rounded totals); all three are 0 on an empty
\* ledger; the ledger and the file are left unchanged.
C6_ResumenRedondeado ==
    [][PasoResumen =>
         LET movs == movimientos[ret'.inst]
             ingresos == SumaDe(movs, DeTipo(movs, "ingreso"))
             gastos == SumaDe(movs, DeTipo(movs, "gasto"))
         IN  /\ ret'.error = ""
             /\ EsRedondeo(ret'.resumen.ingresos, ingresos)
             /\ EsRedondeo(ret'.resumen.gastos, gastos)
             /\ EsRedondeo(ret'.resumen.balance, Menos(ingresos, gastos))
             /\ movs = << >> => ret'.resumen = SinResumen
             /\ movimientos' = movimientos
             /\ file' = file]_vars

\* C6 as stated: the totals are the sums themselves and the balance is
\* totalIncome minus totalExpense.
C6_ResumenExacto ==
    [][PasoResumen =>
         LET movs == movimientos[ret'.inst]
         IN  /\ ret'.error = ""
             /\ EsIgual(ret'.resumen.ingresos, SumaDe(movs, DeTipo(movs, "ingreso")))
             /\ EsIgual(ret'.resumen.gastos, SumaDe(movs, DeTipo(movs, "gasto")))
             /\ ret'.resumen.balance = Menos(ret'.resumen.ingresos, ret'.resumen.gastos)
             /\ movs = << >> => ret'.resumen = SinResumen
             /\ movimientos' = movimientos
             /\ file' = file]_vars

\* A Summary over an income and an expense whose balance is not the difference
\* of the two returned totals.
C6_Witness ==
    /\ ret.op = "resumen"
    /\ DeTipo(movimientos[1], "ingreso") # {}
    /\ DeTipo(movimientos[1], "gasto") # {}
    /\ ret.resumen.balance # ret.resumen.ingresos - ret.resumen.gastos

----------------------------------------------------------------------------
\* C7

\* The keys are exactly the categories of the entries of the kind, in strictly
\* ascending order.
ClavesOrdenadas(movs, tipo, cats) ==
    /\ {cats[k][1] : k \in 1..Len(cats)} = {movs[j].categoria : j \in DeTipo(movs, tipo)}
    /\ \A k \in 1..(Len(cats) - 1) : Menor(cats[k][1], cats[k + 1][1])

\* C7 as amended: for a kind in {income, expense}, SummaryByCategory returns the
\* categories of the entries of that kind, in ascending order, each with the sum
\* of the amounts of the entries of that kind and category rounded to two
\* decimals; the mapping is empty when no entry has the kind; any other kind
\* fails with the kind error.
C7_CategoriasRedondeadas ==
    ret.op = "categorias" =>
        LET movs == movimientos[ret.inst]
            tipo == ret.args[1]
            cats == ret.categorias
        IN  IF tipo \notin TiposValidos THEN ret.error = "ValueError:tipo"
            ELSE /\ ret.error = ""
                 /\ ClavesOrdenadas(movs, tipo, cats)
                 /\ \A k \in 1..Len(cats) :
                      EsRedondeo(cats[k][2],
                                 SumaDe(movs, DeTipoYCategoria(movs, tipo, cats[k][1])))

\* C7 as stated: each key is mapped to the sum itself.
C7_CategoriasExactas ==
    ret.op = "categorias" =>
        LET movs == movimientos[ret.inst]
            tipo == ret.args[1]
            cats == ret.categorias
        IN  IF tipo \notin TiposValidos THEN ret.error = "ValueError:tipo"
            ELSE /\ ret.error = ""
                 /\ ClavesOrdenadas(movs, tipo, cats)
                 /\ \A k \in 1..Len(cats) :
                      EsIgual(cats[k][2],
                              SumaDe(movs, DeTipoYCategoria(movs, tipo, cats[k][1])))

\* Two categories of the asked kind, added in descending order and returned in
\* ascending order, one of them with a total that rounding changed.
C7_Witness ==
    /\ ret.op = "categorias"
    /\ ret.error = ""
    /\ Len(ret.categorias) = 2
    /\ Len(movimientos[1]) = 2
    /\ movimientos[1][1].categoria = ret.categorias[2][1]
    /\ movimientos[1][2].categoria = ret.categorias[1][1]
    /\ ~EsIgual(ret.categorias[1][2], movimientos[1][2].monto)

----------------------------------------------------------------------------
\* C5

\* The step is something the caller does to the list it got from List.
PasoCaller ==
    \/ CallerAppend
    \/ CallerRemoveAny
    \/ CallerReplaceAny
    \/ CallerSetFieldAny

\* C5: nothing the caller does to the value List returned changes the store's
\* list or a field of an entry the store holds.
C5_ListaSoloLectura == [][PasoCaller => movimientos' = movimientos]_vars

----------------------------------------------------------------------------
\* C10

\* C10: with two instances on one path, every successful Add leaves the file
\* holding exactly the list of the instance that added - its list before the
\* call and the new entry - whatever the other instance wrote in between, and
\* leaves the other instance's list alone.
C10_UltimoEscritorGana ==
    [][(ret'.op = "agregar" /\ ret'.error = "") =>
         /\ movimientos'[ret'.inst] = Append(movimientos[ret'.inst], ret'.mov)
         /\ ArchivoEs(file', movimientos'[ret'.inst])
         /\ \A j \in Inst \ {ret'.inst} : movimientos'[j] = movimientos[j]]_vars

\* A lost update: after an Add by one instance, an entry the other instance
\* added successfully is in that instance's list and not in the file.
C10_Witness ==
    /\ ret.op = "agregar"
    /\ ret.error = ""
    /\ \E j \in Inst \ {ret.inst} :
         /\ status[j] = "ok"
         /\ \E k \in (cargados[j] + 1)..Len(movimientos[j]) :
              \A n \in 1..Len(file.items) : file.items[n].campos # movimientos[j][k]

====
